---- MODULE Spec2Model ----
(***************************************************************************)
(* A model of the utf16-ext crate: the UTF-16 extensions of Read and Write *)
(* (read.rs, write.rs) and the byte-order-mark detecting reader (auto.rs). *)
(*                                                                         *)
(* The byte stream `inner` is the medium: write_u16 appends two bytes to   *)
(* it, read_u16 takes two bytes from position `pos`.  The underlying       *)
(* read_u16 / write_u16 of byteorder are the external service; each call   *)
(* either works on the bytes or reports an injected failure ("intr" for    *)
(* ErrorKind::Interrupted, "err" for any other I/O failure).               *)
(***************************************************************************)
EXTENDS Integers, Sequences, FiniteSets, TLC

VARIABLES
    inner,      \* the bytes of the underlying reader / writer
    pos,        \* read position in inner (bytes consumed so far)
    handle,     \* "Little" | "Big": the byte order T / the AutoEndianReader
                \* variant; "Unopened" before new_auto_bom, "Failed" after
                \* new_auto_bom returned Err
    ctor,       \* what new_auto_bom returned (NotCalled before the call)
    iter,       \* the iterator made from the reader: NoIter or
                \* [kind |-> "shorts" | "chars" | "lines", variant |-> ...]
    out,        \* the items the iterator has yielded, in order
    last,       \* the last reading call: its start position and the
                \* outcomes of the read_u16 calls it made
    nfaults,    \* injected I/O failures so far
    s,          \* the string given to write_utf16_string (scalar values)
    wpc,        \* "ready": the write is still to be made; "done"; "absent"
    wres,       \* what write_utf16_string returned
    wlog,       \* the outcomes of the write_u16 calls it made
    wbuf,       \* the code units given to write_shorts / write_all_shorts
    wT,         \* the byte order the write was made in ("none" before it)
    wcalls,     \* what the write_shorts calls of write_all_shorts returned
    pc,         \* the call in progress, when calls are taken step by step:
                \* "idle", "Shorts::next", "write_all_shorts" (at the head
                \* of its loop), "write_shorts" (in the call it makes)
    rem,        \* the index where the buffer left to write_all_shorts
                \* starts (`buf = &buf[n..]`), an index in wbuf
    wlen        \* the count `len` of the write_shorts call in progress

vars == <<inner, pos, handle, ctor, iter, out, last, nfaults, s, wpc, wres, wlog,
          wbuf, wT, wcalls, pc, rem, wlen>>

\* What a call made as a whole leaves alone: the state of the calls taken
\* step by step.
stepVars == <<pc, rem, wlen>>

(***************************************************************************)
(* Bounds of the model.                                                    *)
(***************************************************************************)
MaxStrLen == 3      \* scalars in a written string
MaxUnits == 3       \* code units in an enumerated input stream
MaxCalls == 5       \* next() calls made on one iterator
MaxFaults == 1      \* injected I/O failures in one behaviour
MaxScript == 3      \* read_u16 calls of one call that may be made to fail
StepUnits == 2      \* code units in a stream read step by step
StepCalls == 3      \* calls made on one reader taken step by step

(***************************************************************************)
(* Program constants.                                                      *)
(***************************************************************************)
BOM == 65279            \* 0xfeff
BOM_SWAPPED == 65534    \* 0xfffe
LF == 10                \* '\n'
CR == 13                \* '\r'

\* ---------------------------------------------------------------- values
\* Option<Result<T, Error>> and io::Error, as records.
None == [tag |-> "None"]
Ok(v) == [tag |-> "Ok", val |-> v]
Err(e) == [tag |-> "Err", err |-> e]
IoError(k) == [kind |-> k]
\* Error::new(ErrorKind::InvalidData, DecodeUtf16Error { code })
SurrogateError(code) == [kind |-> "InvalidData", code |-> code]
BomError == [kind |-> "InvalidData", msg |-> "First character wasn't a bom"]

Orders == {"Little", "Big"}

\* ------------------------------------------------------------ byte order
\* Mutant of UnitBytes: the order T is ignored, little endian always.
UnitBytesAlwaysLittle(T, u) == <<u % 256, u \div 256>>

\* byteorder's write_u16::<T>: the two bytes of a code unit in order T.
UnitBytes(T, u) ==
    IF T = "Little" THEN <<u % 256, u \div 256>> ELSE <<u \div 256, u % 256>>

\* byteorder's read_u16::<T> on two bytes.
BytesUnit(T, b0, b1) ==
    IF T = "Little" THEN b0 + 256 * b1 ELSE 256 * b0 + b1

\* -------------------------------------------------------- std::char codec
IsSurrogate(u) == u >= 55296 /\ u <= 57343

\* str::encode_utf16: the iterator state is the chars left and the pending
\* low surrogate `extra` (0 when there is none).
NewEncoder(str) == [chars |-> str, extra |-> 0]

\* EncodeUtf16::next: None, or the unit and the advanced encoder.
EncoderNext(enc) ==
    IF enc.extra # 0
    THEN [some |-> TRUE, unit |-> enc.extra, enc |-> [enc EXCEPT !.extra = 0]]
    ELSE IF enc.chars = <<>>
    THEN [some |-> FALSE, unit |-> 0, enc |-> enc]
    ELSE LET c == Head(enc.chars) IN
         IF c < 65536
         THEN [some |-> TRUE, unit |-> c,
               enc |-> [chars |-> Tail(enc.chars), extra |-> 0]]
         ELSE [some |-> TRUE, unit |-> 55296 + ((c - 65536) \div 1024),
               enc |-> [chars |-> Tail(enc.chars),
                        extra |-> 56320 + ((c - 65536) % 1024)]]

\* The code units an encoder still yields.
RECURSIVE EncoderRest(_)
EncoderRest(enc) ==
    LET n == EncoderNext(enc) IN
    IF n.some THEN <<n.unit>> \o EncoderRest(n.enc) ELSE <<>>

\* Mutant of DecodeUtf16First: an invalid pair is reported with its second
\* code unit instead of the unpaired surrogate.
DecodeUtf16FirstReportsSecond(units) ==
    LET u == units[1] IN
    IF ~IsSurrogate(u) THEN Ok(u)
    ELSE IF u >= 56320 THEN Err(u)
    ELSE IF Len(units) < 2 THEN Err(u)
    ELSE LET u2 == units[2] IN
         IF u2 < 56320 \/ u2 > 57343 THEN Err(u2)
         ELSE Ok(65536 + (u % 1024) * 1024 + (u2 % 1024))

\* char::decode_utf16(units).next().unwrap(): the first item of the decoder
\* over a non-empty sequence of code units.
DecodeUtf16First(units) ==
    LET u == units[1] IN
    IF ~IsSurrogate(u) THEN Ok(u)
    ELSE IF u >= 56320 THEN Err(u)
    ELSE IF Len(units) < 2 THEN Err(u)
    ELSE LET u2 == units[2] IN
         IF u2 < 56320 \/ u2 > 57343 THEN Err(u)
         ELSE Ok(65536 + (u % 1024) * 1024 + (u2 % 1024))

\* ------------------------------------------------- the injected failures
Faulty == {"intr", "err"}

Oks(n) == [i \in 1..n |-> "ok"]

\* The failure scripts of one call: the outcomes of its first read_u16 /
\* write_u16 calls, at most n of them with at most k failures, the last one
\* a failure; every call after the script works on the bytes.
RECURSIVE FaultScripts(_, _)
FaultScripts(n, k) ==
    {<<>>} \cup
    IF n <= 0 \/ k <= 0 THEN {}
    ELSE UNION {{Oks(i) \o <<f>> \o t : t \in FaultScripts(n - i - 1, k - 1)} :
                    <<i, f>> \in (0..(n - 1)) \X Faulty}

Faults(log) == Cardinality({i \in DOMAIN log : log[i] \in Faulty})

\* The error of a failed call: "zero" is a sink whose write takes no byte,
\* which the write_all of write_u16 reports as WriteZero.
ErrorOf(f) ==
    IoError(IF f = "intr" THEN "Interrupted"
            ELSE IF f = "zero" THEN "WriteZero" ELSE "Other")

\* The scripts of a call that writes a buffer: the failure scripts, and a
\* sink that takes no byte at any write.
WriteScripts(n, k) ==
    FaultScripts(n, k) \cup {[i \in 1..j |-> "zero"] : j \in 1..n}

\* ---------------------------------------------------------------- read_u16
\* The state of the reader during one call: the position, the outcomes
\* still scripted and the log of the read_u16 calls made.
NewRd(p, script) == [pos |-> p, script |-> script, log |-> <<>>]

\* byteorder's ReadBytesExt::read_u16::<T>: two bytes read exactly; fewer
\* than two bytes left is UnexpectedEof, with the bytes left consumed.
ReadU16(T, bytes, rd) ==
    LET f == IF rd.script = <<>> THEN "ok" ELSE Head(rd.script)
        rest == IF rd.script = <<>> THEN <<>> ELSE Tail(rd.script)
    IN  IF f \in Faulty
        THEN [res |-> Err(ErrorOf(f)),
              rd |-> [pos |-> rd.pos, script |-> rest, log |-> Append(rd.log, f)]]
        ELSE IF rd.pos + 2 <= Len(bytes)
        THEN [res |-> Ok(BytesUnit(T, bytes[rd.pos + 1], bytes[rd.pos + 2])),
              rd |-> [pos |-> rd.pos + 2, script |-> rest,
                      log |-> Append(rd.log, "ok")]]
        ELSE [res |-> Err(IoError("UnexpectedEof")),
              rd |-> [pos |-> Len(bytes), script |-> rest,
                      log |-> Append(rd.log, "eof")]]

\* Mutant of ShortsNext: an interrupted read is yielded like any other
\* failure instead of being made again.
ShortsNextNoRetry(T, bytes, rd) ==
    LET r == ReadU16(T, bytes, rd) IN
    IF r.res.tag = "Ok" THEN [item |-> Ok(r.res.val), rd |-> r.rd]
    ELSE IF r.res.err.kind = "UnexpectedEof" THEN [item |-> None, rd |-> r.rd]
    ELSE [item |-> Err(r.res.err), rd |-> r.rd]

\* One turn of the loop of Shorts::next: an interrupted read goes round
\* again, every other outcome of the read breaks with the item.
ShortsNextIter(T, bytes, rd) ==
    LET r == ReadU16(T, bytes, rd) IN
    IF r.res.tag = "Ok" THEN [done |-> TRUE, item |-> Ok(r.res.val), rd |-> r.rd]
    ELSE IF r.res.err.kind = "Interrupted"
    THEN [done |-> FALSE, item |-> None, rd |-> r.rd]
    ELSE IF r.res.err.kind = "UnexpectedEof"
    THEN [done |-> TRUE, item |-> None, rd |-> r.rd]
    ELSE [done |-> TRUE, item |-> Err(r.res.err), rd |-> r.rd]

\* ------------------------------------------------------------ Shorts::next
RECURSIVE ShortsNext(_, _, _)
ShortsNext(T, bytes, rd) ==
    LET r == ReadU16(T, bytes, rd) IN
    IF r.res.tag = "Ok" THEN [item |-> Ok(r.res.val), rd |-> r.rd]
    ELSE IF r.res.err.kind = "Interrupted" THEN ShortsNext(T, bytes, r.rd)
    ELSE IF r.res.err.kind = "UnexpectedEof" THEN [item |-> None, rd |-> r.rd]
    ELSE [item |-> Err(r.res.err), rd |-> r.rd]

\* Mutant of CharsNext: an interrupted read of the first code unit is made
\* again, and an interrupted read of the second one ends the stream.
RECURSIVE CharsNextHidesInterrupted(_, _, _)
CharsNextHidesInterrupted(T, bytes, rd) ==
    LET r1 == ReadU16(T, bytes, rd) IN
    IF r1.res.tag = "Err"
    THEN IF r1.res.err.kind = "UnexpectedEof"
         THEN [item |-> None, rd |-> r1.rd]
         ELSE IF r1.res.err.kind = "Interrupted"
         THEN CharsNextHidesInterrupted(T, bytes, r1.rd)
         ELSE [item |-> Err(r1.res.err), rd |-> r1.rd]
    ELSE LET first == r1.res.val
             d1 == DecodeUtf16First(<<first>>)
         IN  IF d1.tag = "Ok" THEN [item |-> Ok(d1.val), rd |-> r1.rd]
             ELSE LET r2 == ReadU16(T, bytes, r1.rd) IN
                  IF r2.res.tag = "Err"
                  THEN IF r2.res.err.kind \in {"UnexpectedEof", "Interrupted"}
                       THEN [item |-> None, rd |-> r2.rd]
                       ELSE [item |-> Err(r2.res.err), rd |-> r2.rd]
                  ELSE LET d2 == DecodeUtf16First(<<first, r2.res.val>>) IN
                       [item |-> IF d2.tag = "Ok" THEN Ok(d2.val)
                                 ELSE Err(SurrogateError(d2.err)),
                        rd |-> r2.rd]

\* Mutant of CharsNext: the end of the stream at the second code unit is
\* yielded as an error.
CharsNextEofIsError(T, bytes, rd) ==
    LET r1 == ReadU16(T, bytes, rd) IN
    IF r1.res.tag = "Err"
    THEN IF r1.res.err.kind = "UnexpectedEof"
         THEN [item |-> None, rd |-> r1.rd]
         ELSE [item |-> Err(r1.res.err), rd |-> r1.rd]
    ELSE LET first == r1.res.val
             d1 == DecodeUtf16First(<<first>>)
         IN  IF d1.tag = "Ok" THEN [item |-> Ok(d1.val), rd |-> r1.rd]
             ELSE LET r2 == ReadU16(T, bytes, r1.rd) IN
                  IF r2.res.tag = "Err"
                  THEN [item |-> Err(r2.res.err), rd |-> r2.rd]
                  ELSE LET d2 == DecodeUtf16First(<<first, r2.res.val>>) IN
                       [item |-> IF d2.tag = "Ok" THEN Ok(d2.val)
                                 ELSE Err(SurrogateError(d2.err)),
                        rd |-> r2.rd]

\* ------------------------------------------------------------- Chars::next
CharsNext(T, bytes, rd) ==
    LET r1 == ReadU16(T, bytes, rd) IN
    IF r1.res.tag = "Err"
    THEN IF r1.res.err.kind = "UnexpectedEof"
         THEN [item |-> None, rd |-> r1.rd]
         ELSE [item |-> Err(r1.res.err), rd |-> r1.rd]
    ELSE LET first == r1.res.val
             d1 == DecodeUtf16First(<<first>>)
         IN  IF d1.tag = "Ok" THEN [item |-> Ok(d1.val), rd |-> r1.rd]
             ELSE LET r2 == ReadU16(T, bytes, r1.rd) IN
                  IF r2.res.tag = "Err"
                  THEN IF r2.res.err.kind = "UnexpectedEof"
                       THEN [item |-> None, rd |-> r2.rd]
                       ELSE [item |-> Err(r2.res.err), rd |-> r2.rd]
                  ELSE LET d2 == DecodeUtf16First(<<first, r2.res.val>>) IN
                       [item |-> IF d2.tag = "Ok" THEN Ok(d2.val)
                                 ELSE Err(SurrogateError(d2.err)),
                        rd |-> r2.rd]

\* ------------------------------------------------------- read_utf16_line
\* The loop of read_utf16_line over self.utf16_chars::<T>(), from the
\* buffer and the count it has so far.
RECURSIVE ReadLineLoop(_, _, _, _, _)
ReadLineLoop(T, bytes, rd, buf, len) ==
    LET c == CharsNext(T, bytes, rd) IN
    IF c.item.tag = "None" THEN [res |-> Ok(len), buf |-> buf, rd |-> c.rd]
    ELSE IF c.item.tag = "Ok"
    THEN IF c.item.val = LF
         THEN [res |-> Ok(len + 1), buf |-> Append(buf, c.item.val), rd |-> c.rd]
         ELSE ReadLineLoop(T, bytes, c.rd, Append(buf, c.item.val), len + 1)
    ELSE IF c.item.err.kind = "Interrupted"
    THEN ReadLineLoop(T, bytes, c.rd, buf, len)
    ELSE [res |-> Err(c.item.err), buf |-> buf, rd |-> c.rd]

ReadUtf16Line(T, bytes, rd, buf) == ReadLineLoop(T, bytes, rd, buf, 0)

\* ------------------------------------------------------------- Lines::next
EndsWith(buf, c) == buf # <<>> /\ buf[Len(buf)] = c
Pop(buf) == SubSeq(buf, 1, Len(buf) - 1)

\* Mutant of StripLine: the carriage return before the line feed is kept.
StripLineKeepsCR(buf) == IF EndsWith(buf, LF) THEN Pop(buf) ELSE buf

\* The terminator stripping of Lines::next.
StripLine(buf) ==
    IF EndsWith(buf, LF)
    THEN IF EndsWith(Pop(buf), CR) THEN Pop(Pop(buf)) ELSE Pop(buf)
    ELSE buf

\* Mutant of LinesNext: the iteration ends on an empty line, the length of
\* the stripped line being taken for the count read.
LinesNextEndsOnEmpty(T, bytes, rd) ==
    LET r == ReadUtf16Line(T, bytes, rd, <<>>) IN
    IF r.res.tag = "Err" THEN [item |-> Err(r.res.err), rd |-> r.rd]
    ELSE IF StripLine(r.buf) = <<>> THEN [item |-> None, rd |-> r.rd]
    ELSE [item |-> Ok(StripLine(r.buf)), rd |-> r.rd]

LinesNext(T, bytes, rd) ==
    LET r == ReadUtf16Line(T, bytes, rd, <<>>) IN
    IF r.res.tag = "Err" THEN [item |-> Err(r.res.err), rd |-> r.rd]
    ELSE IF r.res.val = 0 THEN [item |-> None, rd |-> r.rd]
    ELSE [item |-> Ok(StripLine(r.buf)), rd |-> r.rd]

\* --------------------------------------------------------------- write_u16
\* The state of the writer during one call: the bytes of the sink, the
\* outcomes still scripted and the log of the write_u16 calls made.
NewWs(bytes, script) == [bytes |-> bytes, script |-> script, log |-> <<>>]

\* byteorder's WriteBytesExt::write_u16::<T>: the two bytes are appended, or
\* the call fails and the sink takes nothing.
WriteU16(T, u, ws) ==
    LET f == IF ws.script = <<>> THEN "ok" ELSE Head(ws.script)
        rest == IF ws.script = <<>> THEN <<>> ELSE Tail(ws.script)
    IN  IF f # "ok"
        THEN [res |-> Err(ErrorOf(f)),
              ws |-> [bytes |-> ws.bytes, script |-> rest,
                      log |-> Append(ws.log, f)]]
        ELSE [res |-> Ok(<<>>),
              ws |-> [bytes |-> ws.bytes \o UnitBytes(T, u), script |-> rest,
                      log |-> Append(ws.log, "ok")]]

\* ------------------------------------------------------------ write_shorts
\* Mutant of WriteShortsIter: a failure after the first unit is returned as
\* Err like a failure of the first unit.
WriteShortsIterPropagates(T, b, len, ws) ==
    IF len = Len(b) THEN [done |-> TRUE, res |-> Ok(len), len |-> len, ws |-> ws]
    ELSE LET w == WriteU16(T, b[len + 1], ws) IN
         IF w.res.tag = "Ok"
         THEN [done |-> FALSE, res |-> None, len |-> len + 1, ws |-> w.ws]
         ELSE [done |-> TRUE, res |-> Err(w.res.err), len |-> len, ws |-> w.ws]

\* Mutant of WriteShortsIter: a failure of the first unit is swallowed like
\* a later one, the call returning Ok(0).
WriteShortsIterSwallowsAll(T, b, len, ws) ==
    IF len = Len(b) THEN [done |-> TRUE, res |-> Ok(len), len |-> len, ws |-> ws]
    ELSE LET w == WriteU16(T, b[len + 1], ws) IN
         IF w.res.tag = "Ok"
         THEN [done |-> FALSE, res |-> None, len |-> len + 1, ws |-> w.ws]
         ELSE [done |-> TRUE, res |-> Ok(len), len |-> len, ws |-> w.ws]

\* One turn of the `for &short in buf` loop with len units written so far:
\* the end of the buffer returns Ok(len); a write that works counts the
\* unit; a write that fails returns Ok(len) if len > 0 and the error if not.
WriteShortsIter(T, b, len, ws) ==
    IF len = Len(b) THEN [done |-> TRUE, res |-> Ok(len), len |-> len, ws |-> ws]
    ELSE LET w == WriteU16(T, b[len + 1], ws) IN
         IF w.res.tag = "Ok"
         THEN [done |-> FALSE, res |-> None, len |-> len + 1, ws |-> w.ws]
         ELSE IF len > 0
         THEN [done |-> TRUE, res |-> Ok(len), len |-> len, ws |-> w.ws]
         ELSE [done |-> TRUE, res |-> Err(w.res.err), len |-> len, ws |-> w.ws]

RECURSIVE WriteShortsLoop(_, _, _, _)
WriteShortsLoop(T, b, len, ws) ==
    LET i == WriteShortsIter(T, b, len, ws) IN
    IF i.done THEN [res |-> i.res, ws |-> i.ws]
    ELSE WriteShortsLoop(T, b, i.len, i.ws)

WriteShorts(T, b, ws) == WriteShortsLoop(T, b, 0, ws)

\* -------------------------------------------------------- write_all_shorts
\* The value () of a call that returns nothing.
Unit == <<>>

\* Mutant of WriteAllShortsMatch: an interrupted write_shorts is returned to
\* the caller like any other failure.
WriteAllShortsMatchNoRetry(r, b) ==
    IF r.tag = "Ok"
    THEN IF r.val = 0
         THEN [done |-> TRUE, res |-> Err(IoError("WriteZero")), b |-> b]
         ELSE [done |-> FALSE, res |-> None, b |-> SubSeq(b, r.val + 1, Len(b))]
    ELSE [done |-> TRUE, res |-> Err(r.err), b |-> b]

\* Mutant of WriteAllShortsMatch: after Ok(n) the buffer moves on by one
\* unit, whatever n is.
WriteAllShortsMatchByOne(r, b) ==
    IF r.tag = "Ok"
    THEN IF r.val = 0
         THEN [done |-> TRUE, res |-> Err(IoError("WriteZero")), b |-> b]
         ELSE [done |-> FALSE, res |-> None, b |-> SubSeq(b, 2, Len(b))]
    ELSE IF r.err.kind = "Interrupted"
    THEN [done |-> FALSE, res |-> None, b |-> b]
    ELSE [done |-> TRUE, res |-> Err(r.err), b |-> b]

\* Mutant of WriteAllShortsMatch: after Ok(n) the buffer is left as it was.
WriteAllShortsMatchNoAdvance(r, b) ==
    IF r.tag = "Ok"
    THEN IF r.val = 0
         THEN [done |-> TRUE, res |-> Err(IoError("WriteZero")), b |-> b]
         ELSE [done |-> FALSE, res |-> None, b |-> b]
    ELSE IF r.err.kind = "Interrupted"
    THEN [done |-> FALSE, res |-> None, b |-> b]
    ELSE [done |-> TRUE, res |-> Err(r.err), b |-> b]

\* The match on what write_shorts(buf) returned, b being buf: Ok(0) is
\* WriteZero, Ok(n) moves the buffer on by n units, Interrupted goes round
\* again, any other error is returned.
WriteAllShortsMatch(r, b) ==
    IF r.tag = "Ok"
    THEN IF r.val = 0
         THEN [done |-> TRUE, res |-> Err(IoError("WriteZero")), b |-> b]
         ELSE [done |-> FALSE, res |-> None, b |-> SubSeq(b, r.val + 1, Len(b))]
    ELSE IF r.err.kind = "Interrupted"
    THEN [done |-> FALSE, res |-> None, b |-> b]
    ELSE [done |-> TRUE, res |-> Err(r.err), b |-> b]

\* The `while !buf.is_empty()` loop; calls is what the write_shorts calls
\* made so far returned.
RECURSIVE WriteAllShortsLoop(_, _, _, _)
WriteAllShortsLoop(T, b, ws, calls) ==
    IF b = <<>> THEN [res |-> Ok(Unit), ws |-> ws, calls |-> calls]
    ELSE LET r == WriteShorts(T, b, ws)
             m == WriteAllShortsMatch(r.res, b)
         IN  IF m.done
             THEN [res |-> m.res, ws |-> r.ws, calls |-> Append(calls, r.res)]
             ELSE WriteAllShortsLoop(T, m.b, r.ws, Append(calls, r.res))

WriteAllShorts(T, b, ws) == WriteAllShortsLoop(T, b, ws, <<>>)

\* --------------------------------------------------------------- write_bom
\* Mutant of WriteBom: the mark is written in little endian whatever the
\* order asked for.
WriteBomAlwaysLittle(T, ws) == WriteU16("Little", BOM, ws)

\* write_bom::<T>: the one code unit 0xfeff in order T.
WriteBom(T, ws) == WriteU16(T, BOM, ws)

\* ------------------------------------------------------ write_utf16_string
FullyComplete == [variant |-> "FullyComplete"]
Missing(enc) == [variant |-> "Missing", rest |-> enc]

\* The `while let Some(short) = encoder.next()` loop.
RECURSIVE WriteStringLoop(_, _, _)
WriteStringLoop(T, enc, ws) ==
    LET n == EncoderNext(enc) IN
    IF ~n.some THEN [res |-> Ok(FullyComplete), ws |-> ws]
    ELSE LET w == WriteU16(T, n.unit, ws) IN
         IF w.res.tag = "Ok" THEN WriteStringLoop(T, n.enc, w.ws)
         ELSE [res |-> Ok(Missing(n.enc)), ws |-> w.ws]

\* Mutant of WriteUtf16String: the first write is not told apart, so its
\* failure is reported as Missing like any other.
WriteUtf16StringNoFirst(T, str, ws) == WriteStringLoop(T, NewEncoder(str), ws)

WriteUtf16String(T, str, ws) ==
    LET n == EncoderNext(NewEncoder(str)) IN
    IF n.some
    THEN LET w == WriteU16(T, n.unit, ws) IN
         IF w.res.tag = "Ok" THEN WriteStringLoop(T, n.enc, w.ws)
         ELSE [res |-> Err(w.res.err), ws |-> w.ws]
    ELSE WriteStringLoop(T, n.enc, ws)

\* ------------------------------------------------------------ new_auto_bom
\* Mutant of AutoBomResult: the two marks are taken for each other.
AutoBomResultSwapped(r) ==
    IF r.tag = "Err" THEN Err(r.err)
    ELSE IF r.val = BOM THEN Ok("Big")
    ELSE IF r.val = BOM_SWAPPED THEN Ok("Little")
    ELSE Err(BomError)

\* The variant new_auto_bom makes of the result of read_u16::<LE>.
AutoBomResult(r) ==
    IF r.tag = "Err" THEN Err(r.err)
    ELSE IF r.val = BOM THEN Ok("Little")
    ELSE IF r.val = BOM_SWAPPED THEN Ok("Big")
    ELSE Err(BomError)

\* -------------------------------------------------------- AutoEndianReader
\* is_little / is_big of a reader of variant h.
IsLittle(h) == IF h = "Little" THEN TRUE ELSE FALSE
IsBig(h) == IF h = "Big" THEN TRUE ELSE FALSE

\* Mutant of AutoReadU16: the word is read in little endian whatever the
\* variant.
AutoReadU16AlwaysLittle(h, bytes, rd) == ReadU16("Little", bytes, rd)

\* AutoEndianReader::read_u16: read_u16 in the order of the variant.
AutoReadU16(h, bytes, rd) ==
    IF h = "Little" THEN ReadU16("Little", bytes, rd)
    ELSE ReadU16("Big", bytes, rd)

\* AutoEndianReader::read_utf16_line: read_utf16_line in the order of the
\* variant.
AutoReadUtf16Line(h, bytes, rd, buf) ==
    IF h = "Little" THEN ReadUtf16Line("Little", bytes, rd, buf)
    ELSE ReadUtf16Line("Big", bytes, rd, buf)

\* ------------------------------------------------------------------ inputs
BoundedSeqs(S, n) == UNION {[1..k -> S] : k \in 0..n}

RECURSIVE ToBytes(_, _)
ToBytes(T, units) ==
    IF units = <<>> THEN <<>>
    ELSE UnitBytes(T, Head(units)) \o ToBytes(T, Tail(units))

\* Written strings: 'A', U+FFFF, U+10000 and U+1F600.
Strings == BoundedSeqs({65, 65535, 65536, 128512}, MaxStrLen)

\* Written buffers of code units: 'A' and 'B'.
Bufs == BoundedSeqs({65, 66}, MaxUnits)

\* Read streams: 'A', LF, the high surrogate 0xD83D and the low surrogate
\* 0xDE00 in every arrangement, and the texts "A\r\nB\n", "A\r\nB", "A\r".
UnitStreams ==
    BoundedSeqs({65, LF, 55357, 56832}, MaxUnits)
        \cup {<<65, CR, LF, 66, LF>>, <<65, CR, LF, 66>>, <<65, CR>>}

\* The byte streams in order T: the unit streams, and streams cut in the
\* middle of a code unit.
ByteStreams(T) ==
    {ToBytes(T, u) : u \in UnitStreams}
        \cup {ToBytes(T, u) \o <<216>> : u \in {<<>>, <<65>>, <<55357>>}}

\* The streams given to new_auto_bom: a first code unit that is the mark in
\* little endian, the mark in big endian or 'A', and a stream in that order.
BomStreams ==
    {UnitBytes(T, BOM) \o b : <<T, b>> \in
        ({"Little"} \X ByteStreams("Little")) \cup ({"Big"} \X ByteStreams("Big"))}
        \cup {UnitBytes("Little", 65) \o b : b \in ByteStreams("Little")}
        \cup {<<>>, <<255>>}

\* -------------------------------------------------------------------- Init
NotCalled == [tag |-> "NotCalled"]
NoIter == [kind |-> "none", variant |-> "none"]
NoCall == [op |-> "none", start |-> 0, log |-> <<>>]

InitWrite ==
    /\ \/ s \in Strings /\ wbuf = <<>>
       \/ s = <<>> /\ wbuf \in Bufs
    /\ inner = <<>>
    /\ handle \in Orders
    /\ wpc = "ready"

InitRead ==
    /\ s = <<>>
    /\ wbuf = <<>>
    /\ wpc = "absent"
    /\ \/ handle \in Orders /\ inner \in ByteStreams(handle)
       \/ handle = "Unopened" /\ inner \in BomStreams

Init ==
    /\ InitWrite \/ InitRead
    /\ pos = 0
    /\ ctor = NotCalled
    /\ iter = NoIter
    /\ out = <<>>
    /\ last = NoCall
    /\ nfaults = 0
    /\ wres = NotCalled
    /\ wlog = <<>>
    /\ wT = "none"
    /\ wcalls = <<>>
    /\ pc = "idle"
    /\ rem = 0
    /\ wlen = 0

\* ----------------------------------------------------------------- actions
\* The caller writes the string s in the order of the handle.
CallWriteUtf16String ==
    /\ wpc \in {"ready", "bom"}
    /\ \E script \in FaultScripts(MaxScript, MaxFaults - nfaults) :
         LET r == WriteUtf16String(handle, s, NewWs(inner, script)) IN
         /\ r.ws.script = <<>>
         /\ inner' = r.ws.bytes
         /\ wres' = r.res
         /\ wlog' = r.ws.log
         /\ nfaults' = nfaults + Faults(r.ws.log)
    /\ wpc' = IF wpc = "bom" THEN "bom_done" ELSE "done"
    /\ wT' = handle
    /\ UNCHANGED <<pos, handle, ctor, iter, out, last, s, wbuf, wcalls, stepVars>>

\* The caller writes the byte order mark in the order of the handle, before
\* the string.
CallWriteBom ==
    /\ wpc = "ready"
    /\ wbuf = <<>>
    /\ \E script \in FaultScripts(1, MaxFaults - nfaults) :
         LET r == WriteBom(handle, NewWs(inner, script)) IN
         /\ r.ws.script = <<>>
         /\ inner' = r.ws.bytes
         /\ wres' = r.res
         /\ wlog' = r.ws.log
         /\ nfaults' = nfaults + Faults(r.ws.log)
         /\ wpc' = IF r.res.tag = "Ok" THEN "bom" ELSE "bom_failed"
    /\ wT' = handle
    /\ UNCHANGED <<pos, handle, ctor, iter, out, last, s, wbuf, wcalls, stepVars>>

\* The caller writes the buffer wbuf with write_shorts in the order of the
\* handle.
CallWriteShorts ==
    /\ wpc = "ready"
    /\ \E script \in WriteScripts(MaxScript, MaxFaults - nfaults) :
         LET r == WriteShorts(handle, wbuf, NewWs(inner, script)) IN
         /\ r.ws.script = <<>>
         /\ inner' = r.ws.bytes
         /\ wres' = r.res
         /\ wlog' = r.ws.log
         /\ nfaults' = nfaults + Faults(r.ws.log)
    /\ wpc' = "write_shorts"
    /\ wT' = handle
    /\ UNCHANGED <<pos, handle, ctor, iter, out, last, s, wbuf, wcalls, stepVars>>

\* The caller writes the buffer wbuf with write_all_shorts in the order of
\* the handle.
CallWriteAllShorts ==
    /\ wpc = "ready"
    /\ \E script \in WriteScripts(MaxScript, MaxFaults - nfaults) :
         LET r == WriteAllShorts(handle, wbuf, NewWs(inner, script)) IN
         /\ r.ws.script = <<>>
         /\ inner' = r.ws.bytes
         /\ wres' = r.res
         /\ wlog' = r.ws.log
         /\ wcalls' = r.calls
         /\ nfaults' = nfaults + Faults(r.ws.log)
    /\ wpc' = "write_all_shorts"
    /\ wT' = handle
    /\ UNCHANGED <<pos, handle, ctor, iter, out, last, s, wbuf, stepVars>>

\* AutoEndianReader::new_auto_bom(inner).
NewAutoBom ==
    /\ \/ handle = "Unopened" /\ wpc = "absent"
       \/ wpc = "bom_done" /\ ctor = NotCalled
    /\ \E script \in FaultScripts(1, MaxFaults - nfaults) :
         LET r == ReadU16("Little", inner, NewRd(pos, script))
             a == AutoBomResult(r.res)
         IN  /\ r.rd.script = <<>>
             /\ ctor' = a
             /\ handle' = IF a.tag = "Ok" THEN a.val ELSE "Failed"
             /\ pos' = r.rd.pos
             /\ last' = [op |-> "new_auto_bom", start |-> pos, log |-> r.rd.log]
             /\ nfaults' = nfaults + Faults(r.rd.log)
    /\ UNCHANGED <<inner, iter, out, s, wpc, wres, wlog, wbuf, wT, wcalls, stepVars>>

\* shorts / utf16_chars / utf16_lines: the reader becomes an iterator of its
\* own byte order (the type parameter T, or the AutoEndianReader variant).
\* The stream read is a given one, or the sink of a written string,
\* or the sink of a mark and a string once new_auto_bom has opened it.
CanMakeIter ==
    /\ handle \in Orders
    /\ iter = NoIter
    /\ \/ wpc \in {"absent", "done"}
       \/ wpc = "bom_done" /\ ctor.tag = "Ok"

Shorts ==
    /\ CanMakeIter
    /\ iter' = [kind |-> "shorts", variant |-> handle]
    /\ UNCHANGED <<inner, pos, handle, ctor, out, last, nfaults, s, wpc, wres, wlog,
                   wbuf, wT, wcalls, stepVars>>

Utf16Chars ==
    /\ CanMakeIter
    /\ iter' = [kind |-> "chars", variant |-> handle]
    /\ UNCHANGED <<inner, pos, handle, ctor, out, last, nfaults, s, wpc, wres, wlog,
                   wbuf, wT, wcalls, stepVars>>

Utf16Lines ==
    /\ CanMakeIter
    /\ iter' = [kind |-> "lines", variant |-> handle]
    /\ UNCHANGED <<inner, pos, handle, ctor, out, last, nfaults, s, wpc, wres, wlog,
                   wbuf, wT, wcalls, stepVars>>

\* One next() call on the iterator; r is what the call computed.
Yield(op, r) ==
    /\ r.rd.script = <<>>
    /\ out' = Append(out, r.item)
    /\ pos' = r.rd.pos
    /\ last' = [op |-> op, start |-> pos, log |-> r.rd.log]
    /\ nfaults' = nfaults + Faults(r.rd.log)
    /\ UNCHANGED <<inner, handle, ctor, iter, s, wpc, wres, wlog, wbuf, wT, wcalls,
                   stepVars>>

IterIs(kind) == iter.kind = kind /\ Len(out) < MaxCalls

CallShortsNext ==
    /\ IterIs("shorts")
    /\ \E script \in FaultScripts(MaxScript, MaxFaults - nfaults) :
         Yield("Shorts::next", ShortsNext(iter.variant, inner, NewRd(pos, script)))

CallCharsNext ==
    /\ IterIs("chars")
    /\ \E script \in FaultScripts(MaxScript, MaxFaults - nfaults) :
         Yield("Chars::next", CharsNext(iter.variant, inner, NewRd(pos, script)))

CallLinesNext ==
    /\ IterIs("lines")
    /\ \E script \in FaultScripts(MaxScript, MaxFaults - nfaults) :
         Yield("Lines::next", LinesNext(iter.variant, inner, NewRd(pos, script)))

Next ==
    \/ CallWriteBom
    \/ CallWriteUtf16String
    \/ CallWriteShorts
    \/ CallWriteAllShorts
    \/ NewAutoBom
    \/ Shorts
    \/ Utf16Chars
    \/ Utf16Lines
    \/ CallShortsNext
    \/ CallCharsNext
    \/ CallLinesNext

Spec == Init /\ [][Next]_vars

(***************************************************************************)
(* The calls taken step by step: one read_u16 or write_u16 call of the     *)
(* loops of Shorts::next, write_shorts and write_all_shorts in each step,  *)
(* and the calls made on the reader itself.                                *)
(***************************************************************************)
\* The read_u16 / write_u16 calls one call is followed through.
StepCap == MaxUnits + MaxFaults + 1

\* The outcomes of one more read_u16 / write_u16 call.
StepOutcomes == {"ok"} \cup (IF nfaults < MaxFaults THEN Faulty ELSE {})

\* The streams and buffers of the calls taken step by step.
StepInit == Init /\ s = <<>> /\ Len(inner) <= 2 * StepUnits

\* AutoEndianReader::read_u16 (or read_u16::<T>) on the reader itself.
CallReadU16 ==
    /\ pc = "idle"
    /\ handle \in Orders /\ wpc = "absent" /\ iter = NoIter
    /\ Len(out) < StepCalls
    /\ \E script \in FaultScripts(1, MaxFaults - nfaults) :
         LET r == AutoReadU16(handle, inner, NewRd(pos, script)) IN
         Yield("read_u16", [item |-> r.res, rd |-> r.rd])

\* AutoEndianReader::read_utf16_line (or read_utf16_line::<T>) on the reader
\* itself, with an empty buffer.
CallReadUtf16Line ==
    /\ pc = "idle"
    /\ handle \in Orders /\ wpc = "absent" /\ iter = NoIter
    /\ Len(out) < StepCalls
    /\ \E script \in FaultScripts(MaxScript, MaxFaults - nfaults) :
         LET r == AutoReadUtf16Line(handle, inner, NewRd(pos, script), <<>>) IN
         Yield("read_utf16_line",
               [item |-> IF r.res.tag = "Ok"
                         THEN Ok([n |-> r.res.val, buf |-> r.buf]) ELSE r.res,
                rd |-> r.rd])

\* Shorts::next is called.
BeginShortsNext ==
    /\ pc = "idle"
    /\ iter.kind = "shorts" /\ Len(out) < StepCalls
    /\ pc' = "Shorts::next"
    /\ last' = [op |-> "Shorts::next", start |-> pos, log |-> <<>>]
    /\ UNCHANGED <<inner, pos, handle, ctor, iter, out, nfaults, s, wpc, wres, wlog,
                   wbuf, wT, wcalls, rem, wlen>>

\* One turn of the loop of Shorts::next.
StepShortsNext ==
    /\ pc = "Shorts::next"
    /\ Len(last.log) < StepCap
    /\ \E f \in StepOutcomes :
         LET i == ShortsNextIter(iter.variant, inner,
                                 [pos |-> pos, script |-> <<f>>, log |-> last.log])
         IN  /\ pos' = i.rd.pos
             /\ last' = [last EXCEPT !.log = i.rd.log]
             /\ nfaults' = nfaults + Faults(<<f>>)
             /\ out' = IF i.done THEN Append(out, i.item) ELSE out
             /\ pc' = IF i.done THEN "idle" ELSE "Shorts::next"
    /\ UNCHANGED <<inner, handle, ctor, iter, s, wpc, wres, wlog, wbuf, wT, wcalls,
                   rem, wlen>>

\* write_all_shorts is called with the buffer wbuf.
BeginWriteAllShorts ==
    /\ pc = "idle"
    /\ wpc = "ready"
    /\ pc' = "write_all_shorts"
    /\ rem' = 0
    /\ wT' = handle
    /\ UNCHANGED <<inner, pos, handle, ctor, iter, out, last, nfaults, s, wpc, wres,
                   wlog, wbuf, wcalls, wlen>>

\* The buffer left to write_all_shorts.
Rest == SubSeq(wbuf, rem + 1, Len(wbuf))

\* The head of the loop of write_all_shorts: Ok(()) when the buffer left is
\* empty, a write_shorts call on it when not.
WhileWriteAllShorts ==
    /\ pc = "write_all_shorts"
    /\ IF Rest = <<>>
       THEN /\ wres' = Ok(Unit)
            /\ wpc' = "write_all_shorts"
            /\ pc' = "idle"
            /\ wlen' = wlen
       ELSE /\ pc' = "write_shorts"
            /\ wlen' = 0
            /\ UNCHANGED <<wres, wpc>>
    /\ UNCHANGED <<inner, pos, handle, ctor, iter, out, last, nfaults, s, wlog, wbuf,
                   wT, wcalls, rem>>

\* One turn of the loop of the write_shorts call, and, when the call
\* returns, the match of write_all_shorts on what it returned.
StepWriteShorts ==
    /\ pc = "write_shorts"
    /\ Len(wlog) < StepCap
    /\ \E f \in StepOutcomes \cup (IF wlog = <<>> THEN {"zero"} ELSE {}) :
         LET i == WriteShortsIter(wT, Rest, wlen,
                                  [bytes |-> inner, script |-> <<f>>, log |-> wlog])
             m == WriteAllShortsMatch(i.res, Rest)
         IN  /\ inner' = i.ws.bytes
             /\ wlog' = i.ws.log
             /\ nfaults' = nfaults + Faults(i.ws.log) - Faults(wlog)
             /\ wlen' = i.len
             /\ IF ~i.done
                THEN /\ pc' = "write_shorts"
                     /\ UNCHANGED <<wcalls, rem, wres, wpc>>
                ELSE /\ wcalls' = Append(wcalls, i.res)
                     /\ IF m.done
                        THEN /\ wres' = m.res
                             /\ wpc' = "write_all_shorts"
                             /\ pc' = "idle"
                             /\ rem' = rem
                        ELSE /\ rem' = Len(wbuf) - Len(m.b)
                             /\ pc' = "write_all_shorts"
                             /\ UNCHANGED <<wres, wpc>>
    /\ UNCHANGED <<pos, handle, ctor, iter, out, last, s, wbuf, wT>>

StepNext ==
    \/ NewAutoBom
    \/ Shorts
    \/ Utf16Chars
    \/ Utf16Lines
    \/ CallReadU16
    \/ CallReadUtf16Line
    \/ BeginShortsNext
    \/ StepShortsNext
    \/ BeginWriteAllShorts
    \/ WhileWriteAllShorts
    \/ StepWriteShorts

StepSpec == StepInit /\ [][StepNext]_vars

\* The calls in progress go on: the thread that made the call runs it.
FairStepSpec ==
    /\ StepSpec
    /\ WF_vars(StepShortsNext)
    /\ WF_vars(WhileWriteAllShorts)
    /\ WF_vars(StepWriteShorts)


(***************************************************************************)
(* The properties.                                                         *)
(***************************************************************************)
\* The complete code units of a byte stream read in order T.
StreamUnits(T, bytes) ==
    [i \in 1..(Len(bytes) \div 2) |->
        IF T = "Little" THEN bytes[2 * i - 1] + 256 * bytes[2 * i]
        ELSE 256 * bytes[2 * i - 1] + bytes[2 * i]]

\* The UTF-16 encoding of a string of scalar values.
RECURSIVE Utf16Of(_)
Utf16Of(str) ==
    IF str = <<>> THEN <<>>
    ELSE (IF Head(str) < 65536 THEN <<Head(str)>>
          ELSE <<55296 + ((Head(str) - 65536) \div 1024),
                 56320 + ((Head(str) - 65536) % 1024)>>) \o Utf16Of(Tail(str))

\* High (leading) and low (trailing) surrogate code units.
IsHigh(u) == u >= 55296 /\ u <= 56319
IsLow(u) == u >= 56320 /\ u <= 57343

LastOut == out[Len(out)]
CleanWrite == wpc = "done" /\ Faults(wlog) = 0

\* C1. Round trip: a string written by write_utf16_string in order O to a
\* sink that never fails and read back by utf16_chars in order O, with no
\* read failing, yields the scalars of the string in order, each as Ok, and
\* then None.
C1_RoundTrip ==
    (CleanWrite /\ iter.kind = "chars" /\ nfaults = 0) =>
        \A i \in 1..Len(out) :
            out[i] = IF i <= Len(s) THEN Ok(s[i]) ELSE None

C1_Witness ==
    /\ CleanWrite /\ iter.kind = "chars" /\ nfaults = 0
    /\ handle = "Big"
    /\ s = <<65, 128512, 65535>>
    /\ out = <<Ok(65), Ok(128512), Ok(65535), None>>

\* C2. When write_utf16_string returns Missing(rest), the code units the sink
\* accepted followed by the code units left in rest are the UTF-16 encoding
\* of the string.
C2_MissingIsSuffix ==
    (wpc = "done" /\ wres.tag = "Ok" /\ wres.val.variant = "Missing") =>
        StreamUnits(handle, inner) \o EncoderRest(wres.val.rest) = Utf16Of(s)

\* C3. write_utf16_string returns Err exactly when its first write_u16
\* fails, with the error of that write and nothing in the sink; a later
\* failing write makes it return Ok(Missing(..)); with no failing write
\* it returns Ok(FullyComplete), and the empty string makes no write.
C3_ErrOnlyOnFirst ==
    wpc = "done" =>
        /\ wres.tag = "Err" <=> (wlog # <<>> /\ wlog[1] \in Faulty)
        /\ wres.tag = "Err" =>
              /\ wres.err = ErrorOf(wlog[1])
              /\ inner = <<>>
              /\ Len(wlog) = 1
        /\ (\E k \in 2..Len(wlog) : wlog[k] \in Faulty) =>
              (wres.tag = "Ok" /\ wres.val.variant = "Missing")
        /\ Faults(wlog) = 0 <=> wres = Ok(FullyComplete)
        /\ Faults(wlog) = 0 => StreamUnits(handle, inner) = Utf16Of(s)
        /\ s = <<>> => wlog = <<>>

C3_Witness ==
    /\ wpc = "done"
    /\ s = <<128512, 65>>
    /\ wlog = <<"err">>
    /\ wres = Err(IoError("Other"))

\* The code units of the stream from byte position p on, in the order of
\* the iterator or of the handle.
UnitsFrom(T, p) == StreamUnits(T, SubSeq(inner, p + 1, Len(inner)))

\* C4. new_auto_bom reads one 16-bit word as raw little endian: 0xFEFF
\* gives a Little handle, 0xFFFE a Big handle, any other value the invalid
\* byte order mark error (InvalidData); the source is consumed by the two
\* bytes of the probe and no further.
C4_BomDetection ==
    (last.op = "new_auto_bom" /\ Faults(last.log) = 0 /\ Len(inner) >= 2) =>
        LET w == inner[1] + 256 * inner[2] IN
        /\ last.log = <<"ok">>
        /\ pos = 2
        /\ w = 65279 => (ctor = Ok("Little") /\ handle = "Little")
        /\ w = 65534 => (ctor = Ok("Big") /\ handle = "Big")
        /\ w \notin {65279, 65534} =>
              /\ ctor.tag = "Err"
              /\ ctor.err.kind = "InvalidData"
              /\ ctor.err = BomError
              /\ handle = "Failed"

C4_Witness ==
    /\ last.op = "new_auto_bom"
    /\ Faults(last.log) = 0
    /\ inner = <<254, 255, 0, 65>>
    /\ handle = "Big"
    /\ pos = 2

\* The last call was a Chars::next that no injected failure disturbed.
CleanCharsNext == last.op = "Chars::next" /\ Faults(last.log) = 0

\* C5. Every surrogate code unit Chars::next consumes that does not form a
\* valid high/low pair makes the call yield Some(Err), except a high
\* surrogate that is the last code unit of the stream, which yields None.
C5_MalformedIsReported ==
    CleanCharsNext =>
        LET u == UnitsFrom(iter.variant, last.start) IN
        (u # <<>> /\ IsSurrogate(u[1])
              /\ ~(Len(u) >= 2 /\ IsHigh(u[1]) /\ IsLow(u[2]))) =>
            IF IsHigh(u[1]) /\ Len(u) = 1 THEN LastOut = None
            ELSE LastOut.tag = "Err"

\* C6. When the stream ends right after a lone high surrogate (the read of
\* the second unit reports the end of the stream), Chars::next yields None
\* and not an error, and every later call whose reads do not fail yields
\* None too.
C6_TruncatedSurrogate ==
    CleanCharsNext =>
        LET u == UnitsFrom(iter.variant, last.start) IN
        /\ (Len(u) = 1 /\ IsHigh(u[1])) =>
              (last.log = <<"ok", "eof">> /\ LastOut = None)
        /\ (\E i \in 1..(Len(out) - 1) : out[i] = None) => LastOut = None

C6_Witness ==
    /\ CleanCharsNext
    /\ nfaults = 0
    /\ StreamUnits(iter.variant, inner) = <<65, 55357>>
    /\ out = <<Ok(65), None, None>>

\* The code units an error of Chars::next carries.
Carried(e) == IF "code" \in DOMAIN e THEN {e.code} ELSE {}

\* The last call was a Chars::next that read a high surrogate and then a
\* code unit that is no low surrogate.
InvalidPairing ==
    /\ CleanCharsNext
    /\ LET u == UnitsFrom(iter.variant, last.start) IN
       Len(u) >= 2 /\ IsHigh(u[1]) /\ ~IsLow(u[2])

\* C7 as claimed: on a high surrogate followed by a unit that is no low
\* surrogate, Chars::next yields Some(Err) of kind InvalidData carrying both
\* code units.
C7_CarriesBothUnits ==
    InvalidPairing =>
        LET u == UnitsFrom(iter.variant, last.start) IN
        /\ LastOut.tag = "Err"
        /\ LastOut.err.kind = "InvalidData"
        /\ Carried(LastOut.err) = {u[1], u[2]}

\* C7 as amended: on a high surrogate followed by a unit that is no low
\* surrogate, Chars::next consumes both units and yields Some(Err) of kind
\* InvalidData carrying the first code unit only, the unpaired high
\* surrogate.
C7_CarriesFirstUnit ==
    InvalidPairing =>
        LET u == UnitsFrom(iter.variant, last.start) IN
        /\ LastOut.tag = "Err"
        /\ LastOut.err.kind = "InvalidData"
        /\ Carried(LastOut.err) = {u[1]}
        /\ pos = last.start + 4

C7_Witness ==
    /\ InvalidPairing
    /\ UnitsFrom(iter.variant, last.start) = <<55357, 65>>
    /\ LastOut = Err(SurrogateError(55357))

\* The code units the last call consumed.
Consumed ==
    StreamUnits(iter.variant, SubSeq(inner, last.start + 1, pos))

\* The iterator is a Lines over the stream of these code units and no read
\* has failed.
CleanLinesOver(units) ==
    /\ iter.kind = "lines"
    /\ nfaults = 0
    /\ StreamUnits(iter.variant, inner) = units
    /\ Len(inner) = 2 * Len(units)

\* The first n items of a sequence of items followed by None for ever.
ThenNone(items, i) == IF i <= Len(items) THEN items[i] ELSE None

\* The last call was a Lines::next that no injected failure disturbed and
\* that consumed no surrogate, so that its scalars are its code units.
CleanLinesNext ==
    /\ last.op = "Lines::next"
    /\ Faults(last.log) = 0
    /\ \A i \in DOMAIN Consumed : ~IsSurrogate(Consumed[i])

\* C8. No line Lines::next yields holds a line feed; of a buffer that ends
\* with LF the LF is removed and then one trailing CR, if there is one;
\* "A\r\nB\n" yields the lines "A", "B" and then None.
C8_TerminatorStripped ==
    /\ iter.kind = "lines" =>
          \A i \in 1..Len(out) :
              out[i].tag = "Ok" =>
                  \A j \in 1..Len(out[i].val) : out[i].val[j] # 10
    /\ (CleanLinesNext /\ Consumed # <<>> /\ Consumed[Len(Consumed)] = 10) =>
          LET n == Len(Consumed) IN
          LastOut = Ok(IF n >= 2 /\ Consumed[n - 1] = 13
                       THEN SubSeq(Consumed, 1, n - 2)
                       ELSE SubSeq(Consumed, 1, n - 1))
    /\ CleanLinesOver(<<65, 13, 10, 66, 10>>) =>
          \A i \in 1..Len(out) : out[i] = ThenNone(<<Ok(<<65>>), Ok(<<66>>)>>, i)

C8_Witness ==
    /\ CleanLinesOver(<<65, 13, 10, 66, 10>>)
    /\ out = <<Ok(<<65>>), Ok(<<66>>), None>>

\* C9. Lines::next yields None exactly when the end of the stream is reached
\* with no scalar accumulated for the line; a lone LF yields Some(Ok(""))
\* and the iteration goes on; the scalars accumulated when the stream ends
\* without LF are yielded as the last line as they are; "A\r\nB" yields the
\* lines "A", "B" and then None.
C9_EndOfStream ==
    /\ CleanLinesNext =>
          /\ LastOut = None <=>
                (Consumed = <<>> /\ last.log[Len(last.log)] = "eof")
          /\ Consumed = <<10>> => LastOut = Ok(<<>>)
          /\ (Consumed # <<>> /\ Consumed[Len(Consumed)] # 10) =>
                (last.log[Len(last.log)] = "eof" /\ LastOut = Ok(Consumed))
    /\ CleanLinesOver(<<65, 13, 10, 66>>) =>
          \A i \in 1..Len(out) : out[i] = ThenNone(<<Ok(<<65>>), Ok(<<66>>)>>, i)
    /\ CleanLinesOver(<<10, 65>>) =>
          \A i \in 1..Len(out) : out[i] = ThenNone(<<Ok(<<>>), Ok(<<65>>)>>, i)

C9_Witness ==
    /\ CleanLinesOver(<<65, 13, 10, 66>>)
    /\ out = <<Ok(<<65>>), Ok(<<66>>), None>>
    /\ last.log = <<"eof">>

\* The values of the Ok items of a sequence of items, in order.
RECURSIVE OkVals(_)
OkVals(items) ==
    IF items = <<>> THEN <<>>
    ELSE (IF Head(items).tag = "Ok" THEN <<Head(items).val>> ELSE <<>>)
             \o OkVals(Tail(items))

\* Where the stream of the iterator starts: after the two bytes new_auto_bom
\* read, when it made the handle.
IterStart == IF ctor.tag = "Ok" THEN 2 ELSE 0

\* C10. Shorts::next never yields an Interrupted error: it reads again; it
\* yields None when the read reports the end of the stream, Some(Err(e)) for
\* any other failure e and Some(Ok(u)) for a code unit u read; the units
\* yielded are the code units of the stream in order, none skipped and none
\* repeated.
C10_ShortsOutcomes ==
    iter.kind = "shorts" =>
        /\ \A i \in 1..Len(out) :
              ~(out[i].tag = "Err" /\ out[i].err.kind = "Interrupted")
        /\ last.op = "Shorts::next" =>
              LET n == Len(last.log)
                  u == UnitsFrom(iter.variant, last.start)
              IN  /\ n >= 1
                  /\ \A k \in 1..(n - 1) : last.log[k] = "intr"
                  /\ last.log[n] = "eof" <=> LastOut = None
                  /\ last.log[n] = "err" <=> LastOut = Err(IoError("Other"))
                  /\ last.log[n] = "ok" <=> (u # <<>> /\ LastOut = Ok(u[1]))
        /\ LET got == OkVals(out)
               all == UnitsFrom(iter.variant, IterStart)
           IN  /\ Len(got) <= Len(all)
               /\ got = SubSeq(all, 1, Len(got))

C10_Witness ==
    /\ iter.kind = "shorts"
    /\ StreamUnits(iter.variant, inner) = <<65, 10>>
    /\ last.log = <<"intr", "ok">>
    /\ out = <<Ok(65), Ok(10)>>

\* An item that is an error of kind Interrupted.
IsInterrupted(item) == item.tag = "Err" /\ item.err.kind = "Interrupted"

FirstFailure ==
    IF \E k \in DOMAIN wlog : wlog[k] # "ok"
    THEN CHOOSE k \in DOMAIN wlog :
             wlog[k] # "ok" /\ \A j \in 1..(k - 1) : wlog[j] = "ok"
    ELSE 0

\* C12. write_shorts writes the units one at a time in the order of the
\* buffer; a failed write of unit 0 is returned as Err with nothing
\* written; a failed write of unit k >= 1 is swallowed and Ok(k) returned
\* with the first k units in the sink; with no failure it returns
\* Ok(len(buf)).
C12_BestEffortPrefix ==
    wpc = "write_shorts" =>
        LET k == FirstFailure IN
        /\ k = 1 => (wres = Err(ErrorOf(wlog[1])) /\ inner = <<>>)
        /\ k >= 2 =>
              /\ wres = Ok(k - 1)
              /\ StreamUnits(wT, inner) = SubSeq(wbuf, 1, k - 1)
        /\ k = 0 =>
              /\ wres = Ok(Len(wbuf))
              /\ StreamUnits(wT, inner) = wbuf
              /\ Len(wlog) = Len(wbuf)
        /\ k > 0 => Len(wlog) = k
        /\ Len(inner) = 2 * Len(StreamUnits(wT, inner))

C12_Witness ==
    /\ wpc = "write_shorts"
    /\ wbuf = <<65, 66, 65>>
    /\ wlog = <<"ok", "ok", "err">>
    /\ wres = Ok(2)

\* C13 as claimed: write_all_shorts never returns Interrupted, and every
\* other failure of a write is returned as Err with that error.
C13_EveryFailurePropagated ==
    wpc = "write_all_shorts" =>
        /\ wres # Err(IoError("Interrupted"))
        /\ \A k \in DOMAIN wlog :
              wlog[k] \notin {"ok", "intr"} => wres = Err(ErrorOf(wlog[k]))

\* The write of index k of the write log is the first one of its
\* write_shorts call: the call before it ended on a failure, if there is one.
FirstOfCall(k) == k = 1 \/ wlog[k - 1] # "ok"

\* C13 as amended: write_all_shorts never returns Interrupted; a failure
\* other than Interrupted is returned as Err with that error exactly when
\* it hits the first write of a write_shorts call, and it is then the last
\* write made; every other failure, Interrupted or not, is followed by
\* another write, and a call that returns Ok(()) leaves the whole buffer
\* in the sink.
C13_PropagatedOnFirstOfCall ==
    wpc = "write_all_shorts" =>
        /\ wres # Err(IoError("Interrupted"))
        /\ \A k \in DOMAIN wlog :
              wlog[k] # "ok" =>
                  IF FirstOfCall(k) /\ wlog[k] # "intr"
                  THEN wres = Err(ErrorOf(wlog[k])) /\ k = Len(wlog)
                  ELSE k < Len(wlog)
        /\ wres.tag = "Err" => wlog # <<>> /\ wres = Err(ErrorOf(wlog[Len(wlog)]))
        /\ wres.tag = "Ok" => wres = Ok(Unit) /\ StreamUnits(wT, inner) = wbuf

C13_Witness ==
    /\ wpc = "write_all_shorts"
    /\ wbuf = <<65, 66>>
    /\ wlog = <<"ok", "err", "ok">>
    /\ wcalls = <<Ok(1), Ok(1)>>
    /\ wres = Ok(Unit)

\* The sink of the write took no byte at any write.
ZeroSink == wlog # <<>> /\ \A k \in DOMAIN wlog : wlog[k] = "zero"

\* C14 as claimed: on a sink that takes nothing, write_shorts returns Ok(0)
\* and write_all_shorts fails with WriteZero.
C14_ZeroFromWriteShorts ==
    (wpc = "write_all_shorts" /\ wbuf # <<>> /\ ZeroSink) =>
        /\ wres = Err(IoError("WriteZero"))
        /\ wcalls # <<>> /\ wcalls[Len(wcalls)] = Ok(0)

\* C14 as amended: on a sink that takes nothing, write_all_shorts on a
\* non-empty buffer fails with WriteZero after one write; the error is the
\* one of write_u16, which write_shorts returns as Err, and no write_shorts
\* call of write_all_shorts returns Ok(0).
C14_ZeroFromWriteU16 ==
    wpc = "write_all_shorts" =>
        /\ (wbuf # <<>> /\ ZeroSink) =>
              /\ wres = Err(IoError("WriteZero"))
              /\ wcalls = <<Err(IoError("WriteZero"))>>
              /\ wlog = <<"zero">>
              /\ inner = <<>>
        /\ \A i \in DOMAIN wcalls : wcalls[i] # Ok(0)

C14_Witness ==
    /\ wpc = "write_all_shorts"
    /\ wbuf = <<65, 66>>
    /\ ZeroSink
    /\ wres = Err(IoError("WriteZero"))

\* C16 as claimed: a successful Chars::next call reads a second code unit
\* only after a high surrogate, and consumes one code unit after any other
\* first code unit.
C16_SecondOnlyAfterHigh ==
    (CleanCharsNext /\ last.log[1] = "ok") =>
        LET first == UnitsFrom(iter.variant, last.start)[1] IN
        /\ Len(last.log) = 2 => IsHigh(first)
        /\ ~IsHigh(first) => pos = last.start + 2

\* C17 as claimed: a Lines::next call whose reads were only interrupted,
\* never failed otherwise, yields what it yields without interruptions and
\* leaves the stream at the same place.
C17_InterruptionsTransparent ==
    (last.op = "Lines::next" /\ \A k \in DOMAIN last.log : last.log[k] # "err") =>
        LET clean == LinesNext(iter.variant, inner, NewRd(last.start, <<>>)) IN
        /\ LastOut = clean.item
        /\ pos = clean.rd.pos

\* C19. After write_bom::<O> and write_utf16_string::<O>(s) on a sink that
\* never fails, the sink holds the mark in order O and the encoding of s;
\* new_auto_bom over it selects the variant O, and utf16_chars on that
\* handle, with no read failing, yields the scalars of s, then None, the
\* mark not being one of them.
C19_BomRoundTrip ==
    (wpc = "bom_done" /\ nfaults = 0) =>
        /\ wres = Ok(FullyComplete)
        /\ inner = UnitBytes(wT, BOM) \o ToBytes(wT, Utf16Of(s))
        /\ ctor # NotCalled => ctor = Ok(wT) /\ handle = wT
        /\ iter.kind = "chars" =>
              /\ iter.variant = wT
              /\ \A i \in 1..Len(out) :
                    out[i] = IF i <= Len(s) THEN Ok(s[i]) ELSE None

C19_Witness ==
    /\ wpc = "bom_done"
    /\ nfaults = 0
    /\ wT = "Big"
    /\ s = <<128512, 65>>
    /\ ctor = Ok("Big")
    /\ iter.kind = "chars"
    /\ out = <<Ok(128512), Ok(65), None>>

\* The reader is one of a fixed variant, as new_little, new_big and a
\* successful new_auto_bom make it.
Opened == handle \in Orders /\ wpc = "absent"

\* The code units of the stream in the order of the reader, and the ones from
\* the code unit at byte p up to byte q.
UnitsBetween(p, q) ==
    SubSeq(StreamUnits(handle, inner), (p \div 2) + 1, q \div 2)

\* What holds of a reader of a fixed variant in every state: exactly one of
\* is_little and is_big; an iterator made from it has its variant; a code
\* unit returned by read_u16 or Shorts::next is the two bytes consumed, in
\* the order of the variant; a line read with no failure and no surrogate
\* is the code units consumed, in that order.
OrderKept ==
    Opened =>
        /\ IsLittle(handle) # IsBig(handle)
        /\ IsLittle(handle) <=> handle = "Little"
        /\ iter # NoIter => iter.variant = handle
        /\ (pc = "idle" /\ last.op \in {"read_u16", "Shorts::next"}
                /\ LastOut.tag = "Ok") =>
              /\ pos >= 2
              /\ LastOut.val = BytesUnit(handle, inner[pos - 1], inner[pos])
        /\ (last.op = "read_utf16_line" /\ LastOut.tag = "Ok"
                /\ Faults(last.log) = 0 /\ Len(inner) % 2 = 0) =>
              LET u == UnitsBetween(last.start, pos) IN
              (\A i \in DOMAIN u : ~IsSurrogate(u[i])) => LastOut.val.buf = u

\* C15. The byte order of an AutoEndianReader is fixed at construction:
\* under any sequence of read_u16 and read_utf16_line calls and iterator
\* constructions the variant never changes, exactly one of is_little and
\* is_big is true, the iterators have the variant of the reader, and every
\* code unit is read in that order.
C15_OrderFixed ==
    /\ []OrderKept
    /\ [][Opened => handle' = handle]_vars

C15_Witness ==
    /\ Opened
    /\ handle = "Big"
    /\ inner = <<0, 65, 0, LF>>
    /\ Len(out) = 2
    /\ out[1].tag = "Ok"
    /\ last = [op |-> "read_utf16_line", start |-> 2, log |-> <<"ok">>]
    /\ LastOut.tag = "Ok"
    /\ LastOut.val.buf = <<LF>>

\* write_all_shorts is in progress or has returned.
InWriteAllShorts ==
    pc \in {"write_all_shorts", "write_shorts"} \/ wpc = "write_all_shorts"

\* C18. At every point of write_all_shorts, after each write_u16 call,
\* whatever writes failed, the sink holds whole code units that are a prefix
\* of the buffer, the units before the buffer left and the ones the
\* write_shorts call in progress has counted; when write_all_shorts returns
\* Ok(()) the sink holds the whole buffer.
C18_SinkIsPrefix ==
    InWriteAllShorts =>
        /\ Len(inner) % 2 = 0
        /\ Len(inner) <= 2 * Len(wbuf)
        /\ StreamUnits(wT, inner) = SubSeq(wbuf, 1, Len(inner) \div 2)
        /\ pc = "write_all_shorts" => Len(inner) = 2 * rem
        /\ pc = "write_shorts" => Len(inner) = 2 * (rem + wlen)
        /\ (pc = "idle" /\ wres = Ok(Unit)) => StreamUnits(wT, inner) = wbuf

C18_Witness ==
    /\ pc = "write_shorts"
    /\ wbuf = <<65, 66, 65>>
    /\ wlog = <<"ok", "ok", "err">>
    /\ wcalls = <<Ok(2)>>
    /\ rem = 2
    /\ wlen = 0
    /\ StreamUnits(wT, inner) = <<65, 66>>

\* A write_shorts call of write_all_shorts returns Ok in this step.
WriteShortsReturnsOk ==
    /\ Len(wcalls') = Len(wcalls) + 1
    /\ wcalls'[Len(wcalls')].tag = "Ok"

\* C20. With the calls in progress going on and finitely many interrupted
\* reads and writes, every Shorts::next call returns and every
\* write_all_shorts call returns Ok or Err; the buffer left to
\* write_all_shorts never grows, and it shrinks at every write_shorts call
\* that returns Ok.
C20_RetryLoopsTerminate ==
    /\ (pc = "Shorts::next") ~> (pc = "idle" /\ last.op = "Shorts::next")
    /\ (pc \in {"write_all_shorts", "write_shorts"}) ~>
           (pc = "idle" /\ wpc = "write_all_shorts" /\ wres.tag \in {"Ok", "Err"})
    /\ [][/\ pc \in {"write_all_shorts", "write_shorts"} => rem' >= rem
          /\ WriteShortsReturnsOk => rem' > rem]_vars

C20_Witness ==
    /\ pc = "idle"
    /\ wpc = "write_all_shorts"
    /\ wbuf = <<65, 66, 65>>
    /\ wlog = <<"ok", "intr", "ok", "ok">>
    /\ wcalls = <<Ok(1), Ok(2)>>
    /\ wres = Ok(Unit)

====
